---- MODULE Spec2Model ----
(***************************************************************************)
(* Model of my_cyclops_new_loss.py: the phase auto-encoder, the sine       *)
(* parameter predictor, the three loss terms and the joint training loop.  *)
(*                                                                         *)
(* Real numbers are fixed-point integers: a value v stands for v / FP.     *)
(* Angles are counted in ticks of pi / PI radians, so 2*pi is TWO_PI       *)
(* ticks.  A squared quantity and every loss term stand at scale FP * FP.  *)
(* NaN (the mean of an empty tensor) is the distinguished value NaN.       *)
(***************************************************************************)
EXTENDS Integers, Sequences, FiniteSets, TLC

VARIABLES
    expressions,        \* train_dataset.expressions: N rows of n_genes values
    times,              \* train_dataset.times, <<>> when None
    celltypes,          \* train_dataset.celltypes, <<>> when None
    n_real,             \* rows 1..n_real are real samples, the rest are padding
    num_epochs,         \* configuration
    lambdas,            \* configuration: loss weights, in tenths
    params,             \* parameters of both networks
    pc,                 \* the step of train_model that completed last
    prepared,           \* lines 385-414 have run
    valid_mask,         \* valid_mask_tensor
    epoch,              \* number of completed epochs
    phase_coords,       \* output of the forward pass
    reconstructed,      \* output of the forward pass
    recon_loss,
    time_loss,
    neural_sine_loss,
    sine_scan,          \* the last neural_sine_fitting_loss call: accumulators and result
    total_loss,
    requires_grad,      \* whether total_loss is attached to the graph
    train_losses,
    opt_steps,          \* optimizer.step() calls so far
    sched_steps,        \* scheduler.step() calls so far
    checkpoint,         \* the file torch.save wrote
    probe,              \* a call of one pure function: inputs and result
    lr                  \* the learning rate of the optimizer, in units of lr / LR0

vars == <<expressions, times, celltypes, n_real, num_epochs, lambdas, params,
          pc, prepared, valid_mask, epoch, phase_coords, reconstructed,
          recon_loss, time_loss, neural_sine_loss, sine_scan, total_loss, requires_grad, train_losses, opt_steps,
          sched_steps, checkpoint, probe, lr>>

dataVars == <<expressions, times, celltypes, n_real, num_epochs, lambdas>>

(***************************************************************************)
(* Bounds of the model.                                                    *)
(***************************************************************************)
MaxReal == 6
MaxPad == 1
MaxGenes == 2
MaxEpochs == 2

(***************************************************************************)
(* Program constants and numeric scales.                                   *)
(***************************************************************************)
FP == 10 * 10
PI == 12
TWO_PI == 2 * PI
MIN_SAMPLES == 5
STEP_SIZE == 500
GAMMA == 5
\* the learning rate train_model is called with, as a multiple of the unit
\* the model counts rates in (two halvings stay exact)
LR0 == 2 * 2 * 2 * 2
PERIOD_HOURS == 24
NaN == 0 - 999999
PADDING == "PADDING"

Abs(v) == IF v < 0 THEN 0 - v ELSE v
Min(a, b) == IF a <= b THEN a ELSE b
Max(a, b) == IF a >= b THEN a ELSE b

\* Division rounding toward zero, as the fixed-point image of a real quotient.
Quot(n, d) == IF n >= 0 THEN n \div d ELSE 0 - ((0 - n) \div d)

RECURSIVE SumSeq(_)
SumSeq(s) == IF s = <<>> THEN 0 ELSE Head(s) + SumSeq(Tail(s))

RECURSIVE ISqrtIn(_, _, _)
ISqrtIn(n, lo, hi) ==
    IF lo >= hi THEN lo
    ELSE LET mid == (lo + hi + 1) \div 2
         IN IF mid * mid <= n THEN ISqrtIn(n, mid, hi) ELSE ISqrtIn(n, lo, mid - 1)

\* floor(sqrt(n)) for 0 <= n < 2^31
ISqrt(n) == ISqrtIn(n, 0, Min(n, 46340))

\* s restricted to the positions where mask is TRUE (tensor[mask])
RECURSIVE MaskSelectFrom(_, _, _)
MaskSelectFrom(s, mask, i) ==
    IF i > Len(s) THEN <<>>
    ELSE (IF mask[i] THEN <<s[i]>> ELSE <<>>) \o MaskSelectFrom(s, mask, i + 1)

MaskSelect(s, mask) == MaskSelectFrom(s, mask, 1)

CountTrue(mask) == Cardinality({i \in DOMAIN mask : mask[i]})

Dot(u, v) == SumSeq([k \in 1..Len(u) |-> u[k] * v[k]])

(***************************************************************************)
(* Circular geometry.                                                      *)
(***************************************************************************)
\* tan((2k - 1) * 7.5 degrees) * 1000 for k = 1..6: the angles half-way
\* between two ticks
TanTable == <<132, 414, 767, 1303, 2414, 7596>>

\* atan2 of a first-quadrant point (x >= 0, y >= 0, not both 0), to the
\* nearest tick
QuadrantTicks(x, y) ==
    IF x = 0 THEN PI \div 2
    ELSE Cardinality({k \in 1..Len(TanTable) : (y * 1000) \div x >= TanTable[k]})

\* torch.atan2(y, x) to the nearest tick, in -PI .. PI; atan2(0, 0) = 0
atan2(y, x) ==
    IF x = 0 /\ y = 0 THEN 0
    ELSE LET q == QuadrantTicks(Abs(x), Abs(y))
             a == IF x >= 0 THEN q ELSE PI - q
         IN IF y < 0 THEN 0 - a ELSE a

\* The sign of torch.atan2(y, x): a float keeps the sign of a value however
\* close to 0 it is, and atan2 is negative exactly below the x axis.
atan2_is_negative(y, x) == y < 0

\* lines 95-98.  The test of line 97 is on the float itself; the sum
\* phase + 2*np.pi is rounded to the nearest representable value, which a
\* tick stands for here.
coords_to_phase(c) ==
    LET phase == atan2(c[2], c[1])
    IN IF atan2_is_negative(c[2], c[1]) THEN phase + TWO_PI ELSE phase

time_to_phase(time_hours, period_hours) ==
    Quot(TWO_PI * time_hours, period_hours)

\* sin(k * 15 degrees) * FP for k = 0..6
SinTable == <<0, 26, 50, 71, 87, 97, 100>>

\* torch.sin of an angle in ticks, at scale FP
sin(a) ==
    LET r == a % TWO_PI
        h == IF r >= PI THEN r - PI ELSE r
        m == IF h > PI \div 2 THEN PI - h ELSE h
        v == SinTable[m + 1]
    IN IF r >= PI THEN 0 - v ELSE v

(***************************************************************************)
(* PhaseAutoEncoder                                                        *)
(***************************************************************************)
\* nn.Linear: weight is a sequence of rows, one per output
Linear(layer, x) == [r \in 1..Len(layer.weight) |-> Dot(layer.weight[r], x) + layer.bias[r]]

\* nn.Linear raises when the width of its input is not in_features
linear_raises(layer, x) == Len(x) # Len(layer.weight[1])

\* torch.norm(raw_coords, dim=1)
Norm(raw) == ISqrt(raw[1] * raw[1] + raw[2] * raw[2])

\* raw_coords / (norm + 1e-8).  1e-8 is below the resolution 1/FP: added to
\* a norm of at least one quantum it changes nothing, and at the origin the
\* quotient is 0 / 1e-8 = 0.
DivideByNormPlusEps(raw) ==
    LET norm == Norm(raw)
    IN [k \in 1..2 |-> IF norm = 0 THEN 0 ELSE Quot(raw[k] * FP, norm)]

\* PhaseAutoEncoder.forward on one row: <<unit_coords, reconstructed>>
forward(model, x) ==
    LET raw_coords == Linear(model.encoder, x)
        unit_coords == DivideByNormPlusEps(raw_coords)
        decoded == Linear(model.decoder, unit_coords)
    IN <<unit_coords, decoded>>

\* the norm of a unit_coords value, at scale FP
Magnitude(c) == ISqrt(c[1] * c[1] + c[2] * c[2])

(***************************************************************************)
(* SineParameterPredictor                                                  *)
(***************************************************************************)
\* Raw outputs the three-output network can produce, at scale FP.
RawOutputs == << <<0, 0, 0>>, <<200, 150, 50>>, <<0 - 1000, 0 - 300, 0 - 100>>,
                 <<100, 2000, 0>>, <<0 - 20000, 0 - 2000, 100>> >>

\* self.network(gene_expressions): the first nn.Linear raises when the input
\* width is not in_features; otherwise the output is a function of the
\* parameters, the input and the dropout mask.
network_raises(predictor, gene_expressions) == Len(gene_expressions) # predictor.in_features

network(predictor, gene_expressions, drop) ==
    RawOutputs[((predictor.network + Abs(SumSeq(gene_expressions)) \div FP + drop)
                 % Len(RawOutputs)) + 1]

\* nn.Softplus, result in millionths (threshold 20: identity above it;
\* exp underflows to 0 far below 0)
Softplus(x) ==
    CASE x > 2000 -> x * 10000
      [] x = 200 -> 2126928
      [] x = 100 -> 1313262
      [] x = 0 -> 693147
      [] x = 0 - 1000 -> 45
      [] x < 0 - 10000 -> 0
      [] OTHER -> Max(x, 0) * 10000 + 1000

\* nn.Tanh times np.pi, in ticks
TanhTimesPi(x) ==
    CASE x >= 1000 -> PI
      [] x <= 0 - 1000 -> 0 - PI
      [] x = 0 -> 0
      [] x = 150 -> PI - 2
      [] x = 0 - 300 -> 1 - PI
      [] OTHER -> Quot(x * PI, 1000)

\* sine_predictor_forward without the 1e-6 added to the amplitude
sine_predictor_forward_no_floor(predictor, gene_expressions, drop) ==
    LET raw_output == network(predictor, gene_expressions, drop)
    IN <<Softplus(raw_output[1]), TanhTimesPi(raw_output[2]), raw_output[3]>>

\* SineParameterPredictor.forward: amplitude in millionths, phase_shift in
\* ticks, baseline at scale FP
sine_predictor_forward(predictor, gene_expressions, drop) ==
    LET raw_output == network(predictor, gene_expressions, drop)
        amplitude == Softplus(raw_output[1]) + 1
        phase_shift == TanhTimesPi(raw_output[2])
        baseline == raw_output[3]
    IN <<amplitude, phase_shift, baseline>>

(***************************************************************************)
(* Loss terms                                                              *)
(***************************************************************************)
NanAdd(a, b) == IF a = NaN \/ b = NaN THEN NaN ELSE a + b
NanScale(w, a) == IF a = NaN THEN NaN ELSE Quot(w * a, 10)

\* torch.mean: NaN on an empty tensor
Mean(s) == IF s = <<>> THEN NaN ELSE Quot(SumSeq(s), Len(s))

\* one radian-tick at the scale of the losses
TickLoss == Quot(31416, PI)

\* nn.MSELoss over the rows given (a non-empty list of rows)
MSELoss(input, target) ==
    LET n == Len(input)
        g == Len(input[1])
        sq == [k \in 1..(n * g) |->
                 LET i == ((k - 1) \div g) + 1
                     j == ((k - 1) % g) + 1
                     d == input[i][j] - target[i][j]
                 IN d * d]
    IN Mean(sq)

\* lines 362-363: the per-sample error, in ticks
phase_diff(pred_phase, true_phase) ==
    LET d == Abs(pred_phase - true_phase)
    IN Min(d, TWO_PI - d)

time_supervision_errors(coords, true_times, period_hours) ==
    [i \in 1..Len(coords) |->
        phase_diff(coords_to_phase(coords[i]), time_to_phase(true_times[i], period_hours))]

\* true_times = <<>> stands for None; lambda_time in tenths
time_supervision_loss(coords, true_times, has_times, lambda_time, period_hours) ==
    IF ~has_times THEN 0
    ELSE LET errs == time_supervision_errors(coords, true_times, period_hours)
             m == Mean([i \in 1..Len(errs) |-> errs[i] * TickLoss])
         IN NanScale(lambda_time, m)

\* lines 550-555 of predict_and_save_phases: Phase_Error_Radians of one sample
Phase_Error_Radians(phase, time, period_hours) ==
    LET True_Phase_Radians == time_to_phase(time, period_hours)
        err == Abs(phase - True_Phase_Radians)
    IN Min(err, TWO_PI - err)

(***************************************************************************)
(* neural_sine_fitting_loss                                                *)
(***************************************************************************)
\* np.unique sorts: the labels of the model in their sorted order
CelltypeOrder == <<"A", "B", PADDING>>

unique_celltypes(cts) ==
    SelectSeq(CelltypeOrder, LAMBDA c : \E i \in 1..Len(cts) : cts[i] = c)

\* the (celltype, gene_idx) pairs in the order of the two nested loops
ScanPairs(cts, n_genes) ==
    LET u == unique_celltypes(cts)
    IN [k \in 1..(Len(u) * n_genes) |->
          <<u[((k - 1) \div n_genes) + 1], ((k - 1) % n_genes) + 1>>]

\* line 311
celltype_mask(cts, celltype) == [i \in 1..Len(cts) |-> cts[i] = celltype]

\* lines 316 and 319
gene_expression(exprs, cts, pair) ==
    LET rows == MaskSelect(exprs, celltype_mask(cts, pair[1]))
    IN [i \in 1..Len(rows) |-> rows[i][pair[2]]]

\* lines 325-326
gene_input_full(ge, input_dim) ==
    [i \in 1..input_dim |-> IF i <= Len(ge) THEN ge[i] ELSE 0]

\* line 330, cut to the group as line 337 cuts it: the positions of the
\* group whose value in gene_input_full is not 0
gene_valid_mask(ge, full) == [i \in 1..Len(ge) |-> full[i] # 0]

\* PairSkipped with the size test off by one
PairSkippedOffByOne(exprs, cts, pair, min_samples) ==
    \/ pair[1] = PADDING
    \/ CountTrue(celltype_mask(cts, pair[1])) <= min_samples
    \/ Len(gene_expression(exprs, cts, pair)) <= min_samples

\* lines 308-322: the pair is skipped before the try block
PairSkipped(exprs, cts, pair, min_samples) ==
    \/ pair[1] = PADDING
    \/ CountTrue(celltype_mask(cts, pair[1])) < min_samples
    \/ Len(gene_expression(exprs, cts, pair)) < min_samples

\* lines 330-339: gene_loss + reg_loss of a pair whose prediction succeeded
PairLoss(coords, exprs, cts, predictor, drop, pair) ==
    LET ge == gene_expression(exprs, cts, pair)
        full == gene_input_full(ge, Len(exprs))
        predicted_params == sine_predictor_forward(predictor, full, drop)
        celltype_phases == MaskSelect([i \in 1..Len(coords) |-> coords_to_phase(coords[i])],
                                      celltype_mask(cts, pair[1]))
        nonzero == gene_valid_mask(ge, full)
        amplitude == predicted_params[1]
        phase_shift == predicted_params[2]
        baseline == predicted_params[3]
        predicted_sine == [i \in 1..Len(ge) |->
            Quot(amplitude * sin(celltype_phases[i] + phase_shift), 1000000) + baseline]
        sq == [i \in 1..Len(ge) |-> (ge[i] - predicted_sine[i]) * (ge[i] - predicted_sine[i])]
        gene_loss == Mean(MaskSelect(sq, nonzero))
        amp == Quot(amplitude, 10000)
        reg_loss == Quot(amp * amp + baseline * baseline, 100)
    IN NanAdd(gene_loss, reg_loss)

\* OnPairRaised with the counter incremented all the same
OnPairRaisedCounting(acc, k) ==
    [acc EXCEPT !.raised = @ \cup {k}, !.total_combinations = @ + 1]

\* the except branch of lines 344-346: the warning is printed and the scan goes on
OnPairRaised(acc, k) == [acc EXCEPT !.raised = @ \cup {k}]

\* lines 341-342
OnPairScored(acc, loss) ==
    [acc EXCEPT !.total_loss = NanAdd(@, loss), !.total_combinations = @ + 1]

\* The scan of lines 307-346 from pair k on.  faults are the pairs whose
\* scoring raises for a reason other than the input width.
RECURSIVE Scan(_, _, _, _, _, _, _, _, _)
Scan(coords, exprs, cts, predictor, drop, faults, min_samples, k, acc) ==
    LET pairs == ScanPairs(cts, Len(exprs[1]))
    IN IF k > Len(pairs) THEN acc
       ELSE LET pair == pairs[k]
                ge == gene_expression(exprs, cts, pair)
                next ==
                    IF PairSkipped(exprs, cts, pair, min_samples) THEN acc
                    ELSE IF network_raises(predictor, gene_input_full(ge, Len(exprs)))
                            \/ k \in faults
                         THEN OnPairRaised(acc, k)
                         ELSE OnPairScored(acc, PairLoss(coords, exprs, cts, predictor, drop, pair))
            IN Scan(coords, exprs, cts, predictor, drop, faults, min_samples, k + 1, next)

\* lines 348-351
SineResult(acc, lambda_neural_sine) ==
    [acc EXCEPT !.loss = IF acc.total_combinations > 0
                         THEN NanScale(lambda_neural_sine,
                                       IF acc.total_loss = NaN THEN NaN
                                       ELSE Quot(acc.total_loss, acc.total_combinations))
                         ELSE 0,
                !.requires_grad = acc.total_combinations > 0]

ScanStart == [total_loss |-> 0, total_combinations |-> 0, raised |-> {},
              loss |-> 0, requires_grad |-> FALSE, drop |-> 0]

\* cts = <<>> stands for celltypes is None
neural_sine_fitting_loss(coords, exprs, cts, predictor, lambda_neural_sine, min_samples, drop, faults) ==
    IF cts = <<>> THEN ScanStart
    ELSE SineResult(Scan(coords, exprs, cts, predictor, drop, faults, min_samples, 1, ScanStart),
                    lambda_neural_sine)

(***************************************************************************)
(* Inputs: the datasets load_and_preprocess_train_data builds, and the     *)
(* parameter values of the two networks.                                   *)
(***************************************************************************)
ExprValue(pat, i, j) == ((((pat + 1) * i + 2 * j) % 4) - 1) * FP

\* hours; the second pattern has a negative time and times past one period
TimeValue(tp, i) == IF tp = 0 THEN (5 * i) % PERIOD_HOURS ELSE 9 * i - 15

\* lines 156 and 177-178: real rows, then all-zero padding rows
MakeExpressions(nr, np, g, pat) ==
    [i \in 1..(nr + np) |-> [j \in 1..g |-> IF i <= nr THEN ExprValue(pat, i, j) ELSE 0]]

\* lines 135 and 181
MakeTimes(nr, np, tp) ==
    [i \in 1..(nr + np) |-> IF i <= nr THEN TimeValue(tp, i) ELSE 0]

\* lines 131 and 183
MakeCelltypes(nr, np, na) ==
    [i \in 1..(nr + np) |-> IF i > nr THEN PADDING ELSE IF i <= na THEN "A" ELSE "B"]

\* Parameter values: k = 0 is all-zero, k = 1 has a non-zero encoder bias,
\* k = 2 has a zero encoder bias.
EncoderWeight(k, r, j) ==
    CASE k = 0 -> 0
      [] k = 1 -> IF r = ((j - 1) % 2) + 1 THEN 1 ELSE 0
      [] OTHER -> IF r = 1 THEN (IF j % 2 = 1 THEN 1 ELSE 0 - 1) ELSE (IF j % 2 = 1 THEN 2 ELSE 1)

\* the parameters of PhaseAutoEncoder(input_dim = g), lines 43 and 52
ModelParams(k, g) ==
    [encoder |-> [weight |-> [r \in 1..2 |-> [j \in 1..g |-> EncoderWeight(k, r, j)]],
                  bias |-> IF k = 1 THEN <<FP, 0>> ELSE <<0, 0>>],
     decoder |-> [weight |-> [j \in 1..g |-> IF k = 0 THEN <<0, 0>> ELSE <<j, 1 - k>>],
                  bias |-> [j \in 1..g |-> IF k = 2 THEN FP \div 2 ELSE 0]]]

\* the parameters of SineParameterPredictor(max_samples), lines 1019-1022
PredictorParams(k, n) == [in_features |-> n, network |-> k]

ParamValues(g, n) ==
    {[model |-> ModelParams(k, g), sine |-> PredictorParams(k, n)] : k \in 1..2}

\* loss weights in tenths: the defaults of train_model, and all but the first zero
LambdaValues ==
    {[recon |-> 10, time |-> 5, neural_sine |-> 1], [recon |-> 10, time |-> 0, neural_sine |-> 0]}

n_samples == Len(expressions)
n_genes == Len(expressions[1])
IsPaddingRow(i) == i > n_real

\* preprocessing_info['train_has_time'], ['train_has_celltype'] (lines 115-116)
train_has_time == times # <<>>
train_has_celltype == celltypes # <<>>

NoCheckpoint == [file |-> "none"]
NoProbe == [op |-> "none"]

(***************************************************************************)
(* train_model                                                             *)
(***************************************************************************)
Init ==
    /\ \E nr \in 0..MaxReal, np \in 0..MaxPad :
          /\ nr + np >= 1
          /\ n_real = nr
          /\ expressions = MakeExpressions(nr, np, MaxGenes, 0)
          /\ \/ times = <<>>
             \/ \E tp \in 0..1 : times = MakeTimes(nr, np, tp)
          /\ \/ celltypes = <<>>
             \/ \E na \in 0..nr : celltypes = MakeCelltypes(nr, np, na)
          /\ \E input_dim \in {MaxGenes - 1, MaxGenes} :
                params \in ParamValues(input_dim, nr + np)
    /\ num_epochs \in 0..MaxEpochs
    /\ lambdas \in LambdaValues
    /\ pc = "Idle"
    /\ prepared = FALSE
    /\ valid_mask = <<>>
    /\ epoch = 0
    /\ phase_coords = <<>>
    /\ reconstructed = <<>>
    /\ recon_loss = 0
    /\ time_loss = 0
    /\ neural_sine_loss = 0
    /\ sine_scan = ScanStart
    /\ total_loss = 0
    /\ requires_grad = FALSE
    /\ train_losses = <<>>
    /\ opt_steps = 0
    /\ sched_steps = 0
    /\ checkpoint = NoCheckpoint
    /\ probe = NoProbe
    /\ lr = LR0

\* lines 390-398
BuildValidMask(cts, n) ==
    [i \in 1..n |-> ~(cts # <<>> /\ cts[i] = PADDING)]

\* lines 385-414
Prepare ==
    /\ pc = "Idle"
    /\ ~prepared
    /\ prepared' = TRUE
    /\ valid_mask' = BuildValidMask(celltypes, n_samples)
    /\ UNCHANGED <<dataVars, params, pc, epoch, phase_coords, reconstructed, recon_loss,
                   time_loss, neural_sine_loss, sine_scan, total_loss, requires_grad,
                   train_losses, opt_steps, sched_steps, checkpoint, probe, lr>>

\* lines 424-429: model(expressions_tensor) raises on a width mismatch
ForwardPass ==
    /\ prepared
    /\ pc \in {"Idle", "SchedulerStep"}
    /\ epoch < num_epochs
    /\ IF \E i \in 1..n_samples : linear_raises(params.model.encoder, expressions[i])
       THEN /\ pc' = "Failed"
            /\ UNCHANGED <<phase_coords, reconstructed>>
       ELSE /\ phase_coords' = [i \in 1..n_samples |-> forward(params.model, expressions[i])[1]]
            /\ reconstructed' = [i \in 1..n_samples |-> forward(params.model, expressions[i])[2]]
            /\ pc' = "ForwardPass"
    /\ UNCHANGED <<dataVars, params, prepared, valid_mask, epoch, recon_loss, time_loss,
                   neural_sine_loss, sine_scan, total_loss, requires_grad, train_losses,
                   opt_steps, sched_steps, checkpoint, probe, lr>>

\* lines 431-436
ReconTerm(recon, exprs, mask) ==
    IF CountTrue(mask) > 0
    THEN MSELoss(MaskSelect(recon, mask), MaskSelect(exprs, mask))
    ELSE 0

\* TimeTerm with lambda_time handed to time_supervision_loss as well
TimeTermWeighted(coords, tms, mask) ==
    IF train_has_time /\ tms # <<>>
    THEN LET valid_phase_coords == MaskSelect(coords, mask)
             valid_times == MaskSelect(tms, mask)
         IN IF Len(valid_times) > 0
            THEN time_supervision_loss(valid_phase_coords, valid_times, TRUE, lambdas.time,
                                       PERIOD_HOURS)
            ELSE 0
    ELSE 0

\* lines 438-443
TimeTerm(coords, tms, mask) ==
    IF train_has_time /\ tms # <<>>
    THEN LET valid_phase_coords == MaskSelect(coords, mask)
             valid_times == MaskSelect(tms, mask)
         IN IF Len(valid_times) > 0
            THEN time_supervision_loss(valid_phase_coords, valid_times, TRUE, 10, PERIOD_HOURS)
            ELSE 0
    ELSE 0

\* lines 438-443: whether time_loss is attached to the graph
TimeTermHasGrad(tms, mask) ==
    train_has_time /\ tms # <<>> /\ CountTrue(mask) > 0

\* lines 445-459
SineTerm(coords, exprs, cts, mask, predictor, drop, faults) ==
    IF train_has_celltype /\ cts # <<>>
    THEN LET valid_phase_coords == MaskSelect(coords, mask)
             valid_expressions == MaskSelect(exprs, mask)
             valid_celltypes == MaskSelect(cts, mask)
             non_padding_mask == [i \in 1..Len(valid_celltypes) |-> valid_celltypes[i] # PADDING]
         IN IF CountTrue(non_padding_mask) > 0
            THEN neural_sine_fitting_loss(MaskSelect(valid_phase_coords, non_padding_mask),
                                          MaskSelect(valid_expressions, non_padding_mask),
                                          MaskSelect(valid_celltypes, non_padding_mask),
                                          predictor, 10, MIN_SAMPLES, drop, faults)
            ELSE ScanStart
    ELSE ScanStart

\* line 461
TotalLoss(w, recon, time, sine) ==
    NanAdd(NanAdd(NanScale(w.recon, recon), NanScale(w.time, time)),
           NanScale(w.neural_sine, sine))

\* the pairs a fault can be injected at: none, or one pair of the scan
FaultSets == {{}} \cup {{k} : k \in 1..(2 * MaxGenes)}

\* LossAssembly with the scan writing its zero-filled vector over the first
\* row of the SampleMatrix
LossAssemblyInPlace ==
    /\ pc = "ForwardPass"
    /\ \E drop \in 0..1, faults \in FaultSets :
          LET scan == SineTerm(phase_coords, expressions, celltypes, valid_mask,
                               params.sine, drop, faults)
              recon == ReconTerm(reconstructed, expressions, valid_mask)
              time == TimeTerm(phase_coords, times, valid_mask)
          IN /\ recon_loss' = recon
             /\ time_loss' = time
             /\ sine_scan' = [scan EXCEPT !.drop = IF scan.total_combinations > 0 THEN drop ELSE 0]
             /\ neural_sine_loss' = scan.loss
             /\ total_loss' = TotalLoss(lambdas, recon, time, scan.loss)
             /\ requires_grad' = \/ CountTrue(valid_mask) > 0
                                 \/ TimeTermHasGrad(times, valid_mask)
                                 \/ scan.requires_grad
    /\ pc' = "LossAssembly"
    /\ expressions' = [expressions EXCEPT ![1] = [g \in 1..n_genes |-> 0]]
    /\ UNCHANGED <<times, celltypes, n_real, num_epochs, lambdas, params, prepared, valid_mask, epoch, phase_coords,
                   reconstructed, train_losses, opt_steps, sched_steps, checkpoint, probe, lr>>

\* lines 431-461
LossAssembly ==
    /\ pc = "ForwardPass"
    /\ \E drop \in 0..1, faults \in FaultSets :
          LET scan == SineTerm(phase_coords, expressions, celltypes, valid_mask,
                               params.sine, drop, faults)
              recon == ReconTerm(reconstructed, expressions, valid_mask)
              time == TimeTerm(phase_coords, times, valid_mask)
          IN /\ recon_loss' = recon
             /\ time_loss' = time
             /\ sine_scan' = [scan EXCEPT !.drop = IF scan.total_combinations > 0 THEN drop ELSE 0]
             /\ neural_sine_loss' = scan.loss
             /\ total_loss' = TotalLoss(lambdas, recon, time, scan.loss)
             /\ requires_grad' = \/ CountTrue(valid_mask) > 0
                                 \/ TimeTermHasGrad(times, valid_mask)
                                 \/ scan.requires_grad
    /\ pc' = "LossAssembly"
    /\ UNCHANGED <<dataVars, params, prepared, valid_mask, epoch, phase_coords,
                   reconstructed, train_losses, opt_steps, sched_steps, checkpoint, probe, lr>>

\* line 462: backward() raises when total_loss is not attached to the graph
Backward ==
    /\ pc = "LossAssembly"
    /\ pc' = IF requires_grad THEN "Backward" ELSE "Failed"
    /\ UNCHANGED <<dataVars, params, prepared, valid_mask, epoch, phase_coords,
                   reconstructed, recon_loss, time_loss, neural_sine_loss, sine_scan,
                   total_loss, requires_grad, train_losses, opt_steps, sched_steps,
                   checkpoint, probe, lr>>

\* line 463: Adam moves the parameters of both networks
OptimizerStep ==
    /\ pc = "Backward"
    /\ params' \in ParamValues(n_genes, n_samples)
    /\ opt_steps' = opt_steps + 1
    /\ pc' = "OptimizerStep"
    /\ UNCHANGED <<dataVars, prepared, valid_mask, epoch, phase_coords, reconstructed,
                   recon_loss, time_loss, neural_sine_loss, sine_scan, total_loss,
                   requires_grad, train_losses, sched_steps, checkpoint, probe, lr>>

\* scheduler_step with the decay one step early
scheduler_step_early(last_epoch, rate) ==
    IF last_epoch % STEP_SIZE = 0 THEN Quot(rate * GAMMA, 10) ELSE rate

\* StepLR(optimizer, step_size=500, gamma=0.5).step(): the step counter goes
\* up by one and the rate is multiplied by gamma (in tenths) when the new
\* count is a multiple of step_size
scheduler_step(last_epoch, rate) ==
    IF (last_epoch + 1) % STEP_SIZE = 0 THEN Quot(rate * GAMMA, 10) ELSE rate

\* SchedulerStep with the history replaced by the loss of this epoch
SchedulerStepOverwriting ==
    /\ pc = "OptimizerStep"
    /\ train_losses' = <<total_loss>>
    /\ sched_steps' = sched_steps + 1
    /\ lr' = scheduler_step(sched_steps, lr)
    /\ epoch' = epoch + 1
    /\ pc' = "SchedulerStep"
    /\ UNCHANGED <<dataVars, params, prepared, valid_mask, phase_coords, reconstructed,
                   recon_loss, time_loss, neural_sine_loss, sine_scan, total_loss,
                   requires_grad, opt_steps, checkpoint, probe>>

\* SchedulerStep with a checkpoint written at the end of every epoch
SchedulerStepSaving ==
    /\ pc = "OptimizerStep"
    /\ train_losses' = Append(train_losses, total_loss)
    /\ sched_steps' = sched_steps + 1
    /\ lr' = scheduler_step(sched_steps, lr)
    /\ epoch' = epoch + 1
    /\ pc' = "SchedulerStep"
    /\ checkpoint' = [file |-> "final_model.pth", model_state_dict |-> params.model,
                      train_losses |-> train_losses']
    /\ UNCHANGED <<dataVars, params, prepared, valid_mask, phase_coords, reconstructed,
                   recon_loss, time_loss, neural_sine_loss, sine_scan, total_loss,
                   requires_grad, opt_steps, probe>>

\* lines 465-478
SchedulerStep ==
    /\ pc = "OptimizerStep"
    /\ train_losses' = Append(train_losses, total_loss)
    /\ sched_steps' = sched_steps + 1
    /\ lr' = scheduler_step(sched_steps, lr)
    /\ epoch' = epoch + 1
    /\ pc' = "SchedulerStep"
    /\ UNCHANGED <<dataVars, params, prepared, valid_mask, phase_coords, reconstructed,
                   recon_loss, time_loss, neural_sine_loss, sine_scan, total_loss,
                   requires_grad, opt_steps, checkpoint, probe>>

\* lines 480-484
final_checkpoint ==
    [file |-> "final_model.pth",
     model_state_dict |-> params.model,
     preprocessing_info |-> [train_has_time |-> train_has_time,
                             train_has_celltype |-> train_has_celltype,
                             n_components |-> n_genes,
                             actual_samples |-> n_samples],
     train_losses |-> train_losses]

\* Save without waiting for the last epoch
SaveEarly ==
    /\ prepared
    /\ pc \in {"Idle", "SchedulerStep"}
    /\ checkpoint' = final_checkpoint
    /\ pc' = "Saved"
    /\ UNCHANGED <<dataVars, params, prepared, valid_mask, epoch, phase_coords,
                   reconstructed, recon_loss, time_loss, neural_sine_loss, sine_scan,
                   total_loss, requires_grad, train_losses, opt_steps, sched_steps, probe, lr>>

\* lines 480-487
Save ==
    /\ prepared
    /\ pc \in {"Idle", "SchedulerStep"}
    /\ epoch = num_epochs
    /\ checkpoint' = final_checkpoint
    /\ pc' = "Saved"
    /\ UNCHANGED <<dataVars, params, prepared, valid_mask, epoch, phase_coords,
                   reconstructed, recon_loss, time_loss, neural_sine_loss, sine_scan,
                   total_loss, requires_grad, train_losses, opt_steps, sched_steps, probe, lr>>

Next ==
    \/ Prepare
    \/ ForwardPass
    \/ LossAssembly
    \/ Backward
    \/ OptimizerStep
    \/ SchedulerStep
    \/ Save

Spec == Init /\ [][Next]_vars

(***************************************************************************)
(* Calls of the pure functions on inputs drawn from bounded sets.          *)
(***************************************************************************)
MaxGroup == 6

ExprSet == {0 - FP, 0, FP, 2 * FP}
TimeSet == {0 - 6, 0, 5, 12, 18, 23, 24, 30, 36, 47}
RawCoordSet == {<<a, b>> : a \in {0 - FP, 0, FP, 3 * FP}, b \in {0 - 2 * FP, 0, FP}}

trainVars == <<expressions, times, celltypes, n_real, num_epochs, lambdas, params,
               pc, prepared, valid_mask, epoch, phase_coords, reconstructed,
               recon_loss, time_loss, neural_sine_loss, sine_scan, total_loss,
               requires_grad, train_losses, opt_steps, sched_steps, checkpoint, lr>>

InitFn ==
    /\ n_real = 1
    /\ expressions = MakeExpressions(1, 0, MaxGenes, 0)
    /\ times = <<>>
    /\ celltypes = <<>>
    /\ params = [model |-> ModelParams(1, MaxGenes), sine |-> PredictorParams(1, 1)]
    /\ num_epochs = 0
    /\ lambdas = [recon |-> 10, time |-> 5, neural_sine |-> 1]
    /\ pc = "Idle"
    /\ prepared = FALSE
    /\ valid_mask = <<>>
    /\ epoch = 0
    /\ phase_coords = <<>>
    /\ reconstructed = <<>>
    /\ recon_loss = 0
    /\ time_loss = 0
    /\ neural_sine_loss = 0
    /\ sine_scan = ScanStart
    /\ total_loss = 0
    /\ requires_grad = FALSE
    /\ train_losses = <<>>
    /\ opt_steps = 0
    /\ sched_steps = 0
    /\ checkpoint = NoCheckpoint
    /\ probe = NoProbe
    /\ lr = LR0

\* PhaseAutoEncoder.forward on one row
CallForward ==
    /\ probe = NoProbe
    /\ \E k \in 0..2, x \in [1..MaxGenes -> ExprSet] :
          probe' = [op |-> "forward", k |-> k, x |-> x,
                    raw_coords |-> Linear(ModelParams(k, MaxGenes).encoder, x),
                    unit_coords |-> forward(ModelParams(k, MaxGenes), x)[1]]
    /\ UNCHANGED trainVars

\* time_supervision_loss on one sample
CallTimeSupervisionLoss ==
    /\ probe = NoProbe
    /\ \E raw \in RawCoordSet, t \in TimeSet :
          LET c == DivideByNormPlusEps(raw)
          IN probe' = [op |-> "time_supervision_loss", coords |-> c, time |-> t,
                       pred_phase |-> coords_to_phase(c),
                       true_phase |-> time_to_phase(t, PERIOD_HOURS),
                       errors |-> time_supervision_errors(<<c>>, <<t>>, PERIOD_HOURS),
                       loss |-> time_supervision_loss(<<c>>, <<t>>, TRUE, 10, PERIOD_HOURS)]
    /\ UNCHANGED trainVars

\* lines 509 and 548-555 of predict_and_save_phases on one sample
CallPredictAndSavePhases ==
    /\ probe = NoProbe
    /\ \E raw \in RawCoordSet, t \in TimeSet :
          LET phase == coords_to_phase(DivideByNormPlusEps(raw))
          IN probe' = [op |-> "predict_and_save_phases", phase |-> phase, time |-> t,
                       true_phase |-> time_to_phase(t, PERIOD_HOURS),
                       error |-> Phase_Error_Radians(phase, t, PERIOD_HOURS)]
    /\ UNCHANGED trainVars

\* neural_sine_fitting_loss on na rows of celltype A, nb of B and np of PADDING
CallNeuralSineFittingLoss ==
    /\ probe = NoProbe
    /\ \E na \in 0..MaxGroup, nb \in 0..MaxGroup, np \in {0, 3}, k \in {1},
          min_samples \in {3, MIN_SAMPLES}, extra \in 0..1, drop \in {0},
          faults \in FaultSets :
          /\ na + nb + np >= 1
          /\ LET n == na + nb + np
                 exprs == MakeExpressions(n, 0, MaxGenes, 1)
                 cts == MakeCelltypes(na + nb, np, na)
                 coords == [i \in 1..n |-> forward(ModelParams(k, MaxGenes), exprs[i])[1]]
             IN probe' = [op |-> "neural_sine_fitting_loss", cts |-> cts, exprs |-> exprs,
                          coords |-> coords, k |-> k, min_samples |-> min_samples,
                          in_features |-> n + extra, drop |-> drop, faults |-> faults,
                          result |-> neural_sine_fitting_loss(coords, exprs, cts,
                                        PredictorParams(k, n + extra), 10, min_samples,
                                        drop, faults)]
    /\ UNCHANGED trainVars

\* the 2-vectors coords_to_phase is called on: every sign pattern, points
\* on the axes and points a short way off them; the origin is left out
CoordSet == {c \in {<<a, b>> : a \in {0 - 3 * FP, 0 - 1, 0, 1, FP, 3 * FP},
                               b \in {0 - 3 * FP, 0 - FP, 0 - 1, 0, 1, 3 * FP}} :
                c # <<0, 0>>}

\* coords_to_phase on one 2-vector
CallCoordsToPhase ==
    /\ probe = NoProbe
    /\ \E c \in CoordSet :
          probe' = [op |-> "coords_to_phase", coords |-> c,
                    atan2 |-> atan2(c[2], c[1]), phase |-> coords_to_phase(c)]
    /\ UNCHANGED trainVars

\* SineParameterPredictor.forward on one input vector
CallSinePredictorForward ==
    /\ probe = NoProbe
    /\ \E k \in 0..(Len(RawOutputs) - 1), n \in 1..MaxGenes, drop \in 0..1 :
          \E x \in [1..n -> ExprSet] :
             probe' = [op |-> "sine_predictor_forward", k |-> k, x |-> x, drop |-> drop,
                       raw_output |-> network(PredictorParams(k, n), x, drop),
                       predicted_params |->
                           sine_predictor_forward(PredictorParams(k, n), x, drop)]
    /\ UNCHANGED trainVars

(***************************************************************************)
(* train_model over enough epochs for the learning rate to decay: one      *)
(* dataset of a single real row and all loss weights 0, so that the loss   *)
(* history is the same whatever values the parameters take.                *)
(***************************************************************************)
MaxLrEpochs == 1001

InitLr ==
    /\ n_real = 1
    /\ expressions = MakeExpressions(1, 0, MaxGenes, 0)
    /\ times = <<>>
    /\ celltypes = <<>>
    /\ params \in ParamValues(MaxGenes, 1)
    /\ num_epochs = MaxLrEpochs
    /\ lambdas = [recon |-> 0, time |-> 0, neural_sine |-> 0]
    /\ pc = "Idle"
    /\ prepared = FALSE
    /\ valid_mask = <<>>
    /\ epoch = 0
    /\ phase_coords = <<>>
    /\ reconstructed = <<>>
    /\ recon_loss = 0
    /\ time_loss = 0
    /\ neural_sine_loss = 0
    /\ sine_scan = ScanStart
    /\ total_loss = 0
    /\ requires_grad = FALSE
    /\ train_losses = <<>>
    /\ opt_steps = 0
    /\ sched_steps = 0
    /\ checkpoint = NoCheckpoint
    /\ probe = NoProbe
    /\ lr = LR0

SpecLr == InitLr /\ [][Next]_vars

NextFn ==
    \/ CallForward
    \/ CallCoordsToPhase
    \/ CallSinePredictorForward
    \/ CallTimeSupervisionLoss
    \/ CallPredictAndSavePhases
    \/ CallNeuralSineFittingLoss

SpecFn == InitFn /\ [][NextFn]_vars

(***************************************************************************)
(* Properties of train_model and of the loss terms.                        *)
(***************************************************************************)
\* the feature width of the SampleMatrix is the encoder's input dimension
WellFormed == \A i \in 1..n_samples : ~linear_raises(params.model.encoder, expressions[i])

\* the dataset with the content of every padding row changed
AlterPadding(exprs) ==
    [i \in 1..Len(exprs) |-> IF IsPaddingRow(i) THEN [j \in 1..Len(exprs[i]) |-> FP] ELSE exprs[i]]

ForwardAll(model, exprs, part) == [i \in 1..Len(exprs) |-> forward(model, exprs[i])[part]]

\* C1: the reconstruction term and the neural-sine-fitting term of an epoch
\* depend only on the non-padding rows: with the content of the padding rows
\* changed, the same parameters give the same two terms.
C1_PaddingNeverInfluences ==
    pc = "LossAssembly" =>
        LET alt == AlterPadding(expressions)
            altCoords == ForwardAll(params.model, alt, 1)
            altRecon == ForwardAll(params.model, alt, 2)
        IN /\ recon_loss = ReconTerm(altRecon, alt, valid_mask)
           /\ neural_sine_loss = SineTerm(altCoords, alt, celltypes, valid_mask, params.sine,
                                          sine_scan.drop, sine_scan.raised).loss

\* C2: with TimeLabel absent the time-supervision term is 0 in every epoch,
\* with CellTypeLabel absent the neural-sine-fitting term is 0 in every
\* epoch, and in both cases train_model does not fail and the remaining
\* terms are computed.
C2_AbsentLabelsGiveZero ==
    /\ times = <<>> => time_loss = 0
    /\ celltypes = <<>> => neural_sine_loss = 0
    /\ (WellFormed /\ (times = <<>> \/ celltypes = <<>>)) => pc # "Failed"
    /\ (pc = "LossAssembly" /\ (times = <<>> \/ celltypes = <<>>)) =>
           /\ recon_loss = ReconTerm(reconstructed, expressions, valid_mask)
           /\ time_loss = TimeTerm(phase_coords, times, valid_mask)
           /\ total_loss = TotalLoss(lambdas, recon_loss, time_loss, neural_sine_loss)

\* the celltype groups of a call that are not PADDING and have min_samples members
QualifyingGroups(cts, min_samples) ==
    {c \in {"A", "B"} : CountTrue(celltype_mask(cts, c)) >= min_samples}

\* C3: a (celltype, gene) pair is counted only if its celltype is not
\* PADDING and its group has at least min_samples members; every such pair
\* is either counted or raised, so when no pair fails the counter is
\* (number of qualifying groups) x (number of genes).
C3_CombinationCounter ==
    probe.op = "neural_sine_fitting_loss" =>
        /\ probe.result.total_combinations + Cardinality(probe.result.raised)
              = Cardinality(QualifyingGroups(probe.cts, probe.min_samples)) * Len(probe.exprs[1])
        /\ \A k \in probe.result.raised :
              ScanPairs(probe.cts, Len(probe.exprs[1]))[k][1]
                  \in QualifyingGroups(probe.cts, probe.min_samples)

\* groups of sizes 6 and 4 with threshold 5: the counter is the gene count
C3_Witness ==
    /\ probe.op = "neural_sine_fitting_loss"
    /\ CountTrue(celltype_mask(probe.cts, "A")) = 6
    /\ CountTrue(celltype_mask(probe.cts, "B")) = 4
    /\ CountTrue(celltype_mask(probe.cts, PADDING)) = 3
    /\ probe.min_samples = 5
    /\ probe.result.raised = {}
    /\ probe.result.total_combinations = Len(probe.exprs[1])

\* C4: the checkpoint written on completion holds the parameters of both
\* networks, the preprocessing metadata and the loss history.
C4_CheckpointHasBothNetworks ==
    pc = "Saved" =>
        LET state_dicts == {checkpoint[k] : k \in DOMAIN checkpoint \ {"file", "train_losses"}}
        IN /\ params.model \in state_dicts
           /\ params.sine \in state_dicts
           /\ "preprocessing_info" \in DOMAIN checkpoint
           /\ checkpoint.train_losses = train_losses

\* C5: every circular error the program computes lies in [0, pi].
C5_CircularErrorInRange ==
    /\ probe.op = "time_supervision_loss" =>
          \A i \in 1..Len(probe.errors) : probe.errors[i] >= 0 /\ probe.errors[i] <= PI
    /\ probe.op = "predict_and_save_phases" => probe.error >= 0 /\ probe.error <= PI

\* C6: in every epoch the phase coordinate of every sample, padding rows
\* included, has magnitude 1 (up to the rounding of the fixed-point scale).
C6_UnitMagnitude ==
    \A i \in 1..Len(phase_coords) : Abs(Magnitude(phase_coords[i]) - FP) <= 2

\* C7: for every well-formed input train_model runs all num_epochs epochs,
\* each with a backward pass and an optimizer step, and reaches Saved.
C7_TrainingCompletes ==
    WellFormed =>
        /\ pc # "Failed"
        /\ pc = "Saved" => opt_steps = num_epochs /\ Len(train_losses) = num_epochs

\* the rows train_model hands to neural_sine_fitting_loss
FinalMask == [i \in 1..n_samples |-> valid_mask[i] /\ celltypes # <<>> /\ celltypes[i] # PADDING]
FinalCoords == MaskSelect(phase_coords, FinalMask)
FinalExpressions == MaskSelect(expressions, FinalMask)
FinalCelltypes == IF celltypes = <<>> THEN <<>> ELSE MaskSelect(celltypes, FinalMask)

\* the pairs of the scan that reach the try block
TriedPairs ==
    IF FinalCelltypes = <<>> THEN {}
    ELSE LET pairs == ScanPairs(FinalCelltypes, n_genes)
         IN {k \in 1..Len(pairs) :
                ~PairSkipped(FinalExpressions, FinalCelltypes, pairs[k], MIN_SAMPLES)}

RECURSIVE SumPairLosses(_)
SumPairLosses(ks) ==
    IF ks = {} THEN 0
    ELSE LET k == CHOOSE x \in ks : \A y \in ks : x <= y
         IN NanAdd(PairLoss(FinalCoords, FinalExpressions, FinalCelltypes, params.sine,
                            sine_scan.drop, ScanPairs(FinalCelltypes, n_genes)[k]),
                   SumPairLosses(ks \ {k}))

\* C8: a pair whose scoring raises adds nothing to the accumulated sum and
\* does not increment the counter, the scan goes on with the remaining
\* pairs (every other tried pair is scored and counted), and the epoch is
\* not aborted.
C8_RaisedPairExcluded ==
    /\ sine_scan.raised # {} => pc # "Failed"
    /\ pc \in {"LossAssembly", "Backward"} =>
          /\ sine_scan.raised \subseteq TriedPairs
          /\ sine_scan.total_combinations = Cardinality(TriedPairs \ sine_scan.raised)
          /\ sine_scan.total_loss = SumPairLosses(TriedPairs \ sine_scan.raised)

\* one pair raised, a later pair was scored, and the epoch went on to backward
C8_Witness ==
    /\ pc = "Backward"
    /\ \E r \in sine_scan.raised : \E k \in TriedPairs \ sine_scan.raised : k > r
    /\ sine_scan.total_combinations > 0

\* the edges of Idle -> (ForwardPass -> LossAssembly -> Backward ->
\* OptimizerStep -> SchedulerStep)* -> Saved
MachineEdges ==
    {<<"Idle", "ForwardPass">>, <<"ForwardPass", "LossAssembly">>,
     <<"LossAssembly", "Backward">>, <<"Backward", "OptimizerStep">>,
     <<"OptimizerStep", "SchedulerStep">>, <<"SchedulerStep", "ForwardPass">>,
     <<"SchedulerStep", "Saved">>, <<"Idle", "Saved">>}

\* C9: the steps of train_model occur in the order Idle -> (ForwardPass ->
\* LossAssembly -> Backward -> OptimizerStep -> SchedulerStep per epoch) ->
\* Saved: every change of step is an edge of that machine or the end of the
\* run by an exception, an epoch is completed by SchedulerStep and by no
\* other step, so no step of the next epoch starts before it, and Saved is
\* entered only when all num_epochs epochs have had their SchedulerStep.
C9_StepOrder ==
    [][/\ pc' # pc => <<pc, pc'>> \in MachineEdges \/ pc' = "Failed"
       /\ epoch' = IF pc' # pc /\ pc' = "SchedulerStep" THEN epoch + 1 ELSE epoch
       /\ (pc' # pc /\ pc' = "ForwardPass") => sched_steps = epoch /\ opt_steps = epoch
       /\ (pc' # pc /\ pc' = "Saved") => epoch = num_epochs /\ sched_steps = num_epochs]_vars

\* a second epoch has run after the first and the checkpoint is saved
C9_Witness == pc = "Saved" /\ epoch >= 2 /\ sched_steps = epoch

\* C11: for every 2-vector other than the origin coords_to_phase returns an
\* angle in [0, 2*pi): never negative, never 2*pi.
C11_PhaseInHalfOpenInterval ==
    probe.op = "coords_to_phase" => probe.phase >= 0 /\ probe.phase < TWO_PI

\* C12: the triple SineParameterPredictor.forward returns has an amplitude
\* of at least 1e-6 (one millionth) and a phase offset in [-pi, pi].
C12_SinePredictionBounds ==
    probe.op = "sine_predictor_forward" =>
        /\ probe.predicted_params[1] >= 1
        /\ probe.predicted_params[2] >= 0 - PI
        /\ probe.predicted_params[2] <= PI

\* softplus has underflowed to 0 and tanh has saturated: the amplitude is
\* the floor itself and the phase offset is -pi
C12_Witness ==
    /\ probe.op = "sine_predictor_forward"
    /\ Softplus(probe.raw_output[1]) = 0
    /\ probe.predicted_params[1] = 1
    /\ probe.predicted_params[2] = 0 - PI

\* C13: when the feature width of the SampleMatrix is not the encoder's
\* input dimension train_model aborts before any epoch executes: no
\* optimizer step is taken, no loss is appended to the history and no
\* checkpoint is written.
C13_ShapeMismatchAborts ==
    ~WellFormed =>
        /\ pc \in {"Idle", "Failed"}
        /\ opt_steps = 0
        /\ train_losses = <<>>
        /\ checkpoint = NoCheckpoint

\* the pairs of the last scan, and the group values and the predictor
\* input of pair k
FinalPairs == ScanPairs(FinalCelltypes, n_genes)
FinalGeneExpression(k) == gene_expression(FinalExpressions, FinalCelltypes, FinalPairs[k])
FinalGeneInput(k) == gene_input_full(FinalGeneExpression(k), Len(FinalExpressions))

\* C14: for every qualifying (celltype, gene) pair the vector fed to the
\* SineParameterPredictor has the length of the full (padded) sample count,
\* which is the predictor's input dimension, with the k values of the group
\* in its first k positions and zeros elsewhere, so the predictor does not
\* raise on it; also when the dataset has padding rows.
C14_FullLengthInput ==
    pc = "LossAssembly" =>
        \A k \in TriedPairs :
            LET ge == FinalGeneExpression(k)
                full == FinalGeneInput(k)
            IN /\ Len(full) = n_samples
               /\ Len(full) = params.sine.in_features
               /\ \A i \in 1..Len(full) : full[i] = IF i <= Len(ge) THEN ge[i] ELSE 0
               /\ ~network_raises(params.sine, full)

\* C15: for every scored (celltype, gene) pair the MSE of the sine fit is a
\* mean over all k members of the group, one squared error per member
\* whatever its expression value is (0 included), and k >= min_samples.
C15_MeanOverAllMembers ==
    pc = "LossAssembly" =>
        \A k \in TriedPairs \ sine_scan.raised :
            LET ge == FinalGeneExpression(k)
                averaged == CountTrue(gene_valid_mask(ge, FinalGeneInput(k)))
            IN averaged = Len(ge) /\ averaged >= MIN_SAMPLES

\* the mask that is false exactly for the padding rows
NonPaddingMask == [i \in 1..n_samples |-> ~IsPaddingRow(i)]

\* C16: the time-supervision term of every epoch is the mean circular error
\* over exactly the non-padding samples, with or without CellTypeLabel: a
\* padding row, whose time entry is zero-filled, never contributes.
C16_TimeTermOverNonPadding ==
    pc = "LossAssembly" => time_loss = TimeTerm(phase_coords, times, NonPaddingMask)

\* C17: the ValidityMask train_model builds before the first epoch is false
\* for a row if and only if the row is a padding row, with or without
\* CellTypeLabel, and the PADDING sentinel and the mask exclude the same rows.
C17_MaskFalseExactlyForPadding ==
    prepared =>
        /\ valid_mask = NonPaddingMask
        /\ celltypes # <<>> =>
               \A i \in 1..n_samples : (celltypes[i] = PADDING) <=> ~valid_mask[i]

\* the three terms before any weight: the MSE over the valid rows, the mean
\* circular error over the valid rows, the average loss of the scored pairs
UnweightedRecon == ReconTerm(reconstructed, expressions, valid_mask)
UnweightedTime ==
    IF times = <<>> \/ CountTrue(valid_mask) = 0 THEN 0
    ELSE LET c == MaskSelect(phase_coords, valid_mask)
             t == MaskSelect(times, valid_mask)
         IN Mean([i \in 1..Len(c) |->
                    phase_diff(coords_to_phase(c[i]), time_to_phase(t[i], PERIOD_HOURS))
                        * TickLoss])
UnweightedSine ==
    IF sine_scan.total_combinations = 0 THEN 0
    ELSE IF sine_scan.total_loss = NaN THEN NaN
    ELSE Quot(sine_scan.total_loss, sine_scan.total_combinations)

\* weight w (in tenths) applied once to term a
Weighted(w, a) == IF a = NaN THEN NaN ELSE Quot(w * a, 10)

\* C18: in every epoch the total loss is lambda_recon * reconstruction +
\* lambda_time * time_supervision + lambda_sine * neural_sine_fit, each
\* weight applied exactly once, and the three terms are computed whatever
\* the weights are (a weight of zero skips nothing).
C18_TotalLossWeightsOnce ==
    pc = "LossAssembly" =>
        /\ recon_loss = UnweightedRecon
        /\ time_loss = UnweightedTime
        /\ neural_sine_loss = UnweightedSine
        /\ total_loss = NanAdd(NanAdd(Weighted(lambdas.recon, UnweightedRecon),
                                      Weighted(lambdas.time, UnweightedTime)),
                               Weighted(lambdas.neural_sine, UnweightedSine))

\* the time weight and the sine weight are zero and both terms were
\* computed all the same
C18_Witness ==
    /\ pc = "LossAssembly"
    /\ lambdas.time = 0 /\ time_loss > 0
    /\ lambdas.neural_sine = 0 /\ neural_sine_loss > 0
    /\ total_loss = Weighted(lambdas.recon, recon_loss)

\* C19: the loss history grows by exactly one entry per epoch, appended
\* after the optimizer step of that epoch; after e completed epochs it has
\* length e, recorded entries never change, and the history saved at the
\* end has length num_epochs.
C19_HistoryOnePerEpoch ==
    /\ [](Len(train_losses) = epoch)
    /\ [](pc = "Saved" => /\ checkpoint.train_losses = train_losses
                          /\ Len(checkpoint.train_losses) = num_epochs)
    /\ [][train_losses' # train_losses =>
             /\ train_losses' = Append(train_losses, total_loss)
             /\ pc = "OptimizerStep"
             /\ opt_steps = epoch + 1
             /\ epoch' = epoch + 1]_vars

\* two epochs have completed and the history holds the loss of each
C19_Witness ==
    /\ pc = "SchedulerStep"
    /\ epoch = 2
    /\ opt_steps = 2
    /\ Len(train_losses) = 2
    /\ train_losses[2] = total_loss

\* C20: the checkpoint is written exactly once per run and only after all
\* epochs have completed; in every state before that nothing is persisted,
\* so a run interrupted during an epoch leaves no checkpoint.
C20_CheckpointOnceAtEnd ==
    /\ [](pc # "Saved" => checkpoint = NoCheckpoint)
    /\ [][(checkpoint' # checkpoint) =>
             /\ checkpoint = NoCheckpoint
             /\ pc # "Saved"
             /\ pc' = "Saved"
             /\ epoch = num_epochs
             /\ sched_steps = num_epochs]_vars
    /\ [][(pc = "Saved") => (checkpoint' = checkpoint)]_vars

\* the checkpoint of a run of MaxEpochs epochs has been written
C20_Witness ==
    /\ pc = "Saved"
    /\ num_epochs = MaxEpochs
    /\ checkpoint.file = "final_model.pth"
    /\ checkpoint.model_state_dict = params.model

RECURSIVE HalvedTimes(_, _)
HalvedTimes(rate, n) == IF n = 0 THEN rate ELSE HalvedTimes(rate, n - 1) \div 2

\* C21: the learning rate follows step decay: the rate the optimizer step
\* of epoch e (from 0) uses is lr * 0.5^floor(e / 500), and the rate changes
\* only by one halving at every 500th scheduler step.
C21_StepDecay ==
    /\ [](lr = HalvedTimes(LR0, sched_steps \div 500))
    /\ [][(opt_steps' # opt_steps) => (lr = HalvedTimes(LR0, epoch \div 500))]_vars
    /\ [][(lr' # lr) => /\ sched_steps' = sched_steps + 1
                        /\ sched_steps' % 500 = 0
                        /\ 2 * lr' = lr]_vars
    /\ [][(sched_steps' # sched_steps /\ sched_steps' % 500 = 0) => 2 * lr' = lr]_vars

\* the optimizer step of epoch 1000 has run at a quarter of the rate
C21_Witness ==
    /\ pc = "OptimizerStep"
    /\ epoch = 1000
    /\ opt_steps = 1001
    /\ 4 * lr = LR0

\* C22: across the epochs of train_model the SampleMatrix, TimeLabel,
\* CellTypeLabel and ValidityMask are left unchanged; an epoch starts from
\* them and the current parameters alone, so only the parameters (with the
\* optimizer and scheduler state) and the loss history differ from one
\* epoch start to the next.
C22_DataUnchangedAcrossEpochs ==
    /\ [][/\ expressions' = expressions
           /\ times' = times
           /\ celltypes' = celltypes]_vars
    /\ [][prepared => (valid_mask' = valid_mask)]_vars
    /\ [](pc = "ForwardPass" =>
             /\ phase_coords = ForwardAll(params.model, expressions, 1)
             /\ reconstructed = ForwardAll(params.model, expressions, 2))
    /\ [][(epoch' # epoch) => /\ params' = params
                              /\ Len(train_losses') = Len(train_losses) + 1]_vars

\* the second epoch has started on a dataset with labels and a padding row
C22_Witness ==
    /\ pc = "ForwardPass"
    /\ epoch = 1
    /\ Len(train_losses) = 1
    /\ times # <<>>
    /\ celltypes # <<>>
    /\ n_real >= MIN_SAMPLES
    /\ \E i \in 1..n_samples : ~valid_mask[i]

====
